---------------------------- MODULE Spec2Model ----------------------------
(***************************************************************************)
(* Model of lib/pixel-mapper.cc: the built-in pixel mappers (Rotate,       *)
(* Mirror, U-mapper, V-mapper, Windmill), the registry of mappers by       *)
(* lower-cased name and the public functions RegisterPixelMapper,          *)
(* GetAvailablePixelMappers and FindPixelMapper.                           *)
(*                                                                         *)
(* C strings are sequences of one-character strings.  C int arithmetic is  *)
(* modelled by CDiv / CRem (truncation toward zero); every value the model *)
(* reaches is far inside the range of a 32-bit int.                        *)
(***************************************************************************)
EXTENDS Integers, Sequences, FiniteSets, TLC

\* ------------------------------------------------------------------------
\* Bounds of the model.
\* ------------------------------------------------------------------------
MaxChain == 3
MaxParallel == 2
MaxPanelW == 2
MaxPanelH == 2
MaxRegister == 2

\* ------------------------------------------------------------------------
\* Characters and C library helpers.
\* ------------------------------------------------------------------------

\* The characters the model uses, in ASCII order.
Ascii ==
  << " ", "+", ",", "-",
     "0", "1", "2", "3", "4", "5", "6", "7", "8", "9",
     ":", ";",
     "A", "B", "C", "D", "E", "F", "G", "H", "I", "J", "K", "L", "M",
     "N", "O", "P", "Q", "R", "S", "T", "U", "V", "W", "X", "Y", "Z",
     "a", "b", "c", "d", "e", "f", "g", "h", "i", "j", "k", "l", "m",
     "n", "o", "p", "q", "r", "s", "t", "u", "v", "w", "x", "y", "z" >>

Digits == <<"0", "1", "2", "3", "4", "5", "6", "7", "8", "9">>

Chars == {Ascii[i] : i \in 1..Len(Ascii)}

\* Position of character c in Ascii: order-preserving stand-in for its code.
CodeTable == [c \in Chars |-> CHOOSE i \in 1..Len(Ascii) : Ascii[i] = c]

Code(c) == CodeTable[c]

IsUpper(c) == Code(c) >= Code("A") /\ Code(c) <= Code("Z")

IsDigit(c) == c \in {Digits[i] : i \in 1..Len(Digits)}

DigitValue(c) == Code(c) - Code("0")

\* tolower(3) in the C locale.
LowerTable ==
  [c \in Chars |->
     IF IsUpper(c) THEN Ascii[Code(c) - Code("A") + Code("a")] ELSE c]

tolower(c) == LowerTable[c]

\* The loop "for (n = name; *n; n++) lower_name.append(1, tolower(*n))".
ToLowerName(name) == [i \in 1..Len(name) |-> tolower(name[i])]

\* C integer division and remainder: truncation toward zero, the remainder
\* takes the sign of the dividend.
CDiv(a, b) ==
  IF a >= 0 THEN (IF b > 0 THEN a \div b ELSE -(a \div (-b)))
            ELSE (IF b > 0 THEN -((-a) \div b) ELSE (-a) \div (-b))

CRem(a, b) == a - b * CDiv(a, b)

\* std::string operator< : lexicographic by character code.
RECURSIVE StrLess(_, _)
StrLess(a, b) ==
  IF Len(b) = 0 THEN FALSE
  ELSE IF Len(a) = 0 THEN TRUE
  ELSE IF Code(a[1]) < Code(b[1]) THEN TRUE
  ELSE IF Code(a[1]) > Code(b[1]) THEN FALSE
  ELSE StrLess(Tail(a), Tail(b))

\* strtol(param, &errpos, 10): leading white space, an optional sign, then
\* decimal digits.  value is the number read, errpos the (1-based) index of
\* the first character not consumed; Len(param) + 1 stands for the
\* terminating '\0'.  Without any digit nothing is consumed: value 0 and
\* errpos at the start of the string.
RECURSIVE SkipSpace(_, _)
SkipSpace(s, i) ==
  IF i <= Len(s) /\ s[i] = " " THEN SkipSpace(s, i + 1) ELSE i

RECURSIVE ScanDigits(_, _, _)
ScanDigits(s, i, acc) ==
  IF i <= Len(s) /\ IsDigit(s[i])
  THEN ScanDigits(s, i + 1, 10 * acc + DigitValue(s[i]))
  ELSE [value |-> acc, errpos |-> i]

strtol(s) ==
  LET i0 == SkipSpace(s, 1)
      neg == i0 <= Len(s) /\ s[i0] = "-"
      i1 == IF i0 <= Len(s) /\ (s[i0] = "-" \/ s[i0] = "+") THEN i0 + 1 ELSE i0
      d == ScanDigits(s, i1, 0)
  IN IF d.errpos = i1
     THEN [value |-> 0, errpos |-> 1]
     ELSE [value |-> IF neg THEN -d.value ELSE d.value, errpos |-> d.errpos]

\* strcasecmp(param, "Z") == 0
strcasecmpZ(param) == Len(param) = 1 /\ tolower(param[1]) = tolower("Z")

\* ------------------------------------------------------------------------
\* RotatePixelMapper.  self = [angle_].
\* ------------------------------------------------------------------------
Rotate_New == [angle_ |-> 0]

\* The stored angle for a parsed multiple of 90.
Rotate_Normalize(angle) == CRem(angle + 360, 360)

Rotate_SetParameters(self, chain, parallel, param) ==
  IF Len(param) = 0
  THEN [ok |-> TRUE, self |-> [self EXCEPT !.angle_ = 0]]
  ELSE LET r == strtol(param)
           angle == r.value
       IN IF r.errpos <= Len(param) THEN [ok |-> FALSE, self |-> self]
          ELSE IF CRem(angle, 90) # 0 THEN [ok |-> FALSE, self |-> self]
          ELSE [ok |-> TRUE,
                self |-> [self EXCEPT !.angle_ = Rotate_Normalize(angle)]]

Rotate_GetSizeMapping(self, matrix_width, matrix_height) ==
  IF CRem(self.angle_, 180) = 0
  THEN [ok |-> TRUE, visible_width |-> matrix_width,
        visible_height |-> matrix_height]
  ELSE [ok |-> TRUE, visible_width |-> matrix_height,
        visible_height |-> matrix_width]

\* Faulty variant: the 270 degree case subtracts from the width, not the height.
Rotate_MapVisibleToMatrix_Width270(self, matrix_width, matrix_height, x, y) ==
  CASE self.angle_ = 0 ->
         [written |-> TRUE, matrix_x |-> x, matrix_y |-> y]
    [] self.angle_ = 90 ->
         [written |-> TRUE, matrix_x |-> matrix_width - y - 1, matrix_y |-> x]
    [] self.angle_ = 180 ->
         [written |-> TRUE, matrix_x |-> matrix_width - x - 1,
          matrix_y |-> matrix_height - y - 1]
    [] self.angle_ = 270 ->
         [written |-> TRUE, matrix_x |-> y, matrix_y |-> matrix_width - x - 1]
    [] OTHER ->
         [written |-> FALSE, matrix_x |-> 0, matrix_y |-> 0]

\* written = FALSE: no case of the switch matches and the caller's output
\* cells are left as they were.
Rotate_MapVisibleToMatrix(self, matrix_width, matrix_height, x, y) ==
  CASE self.angle_ = 0 ->
         [written |-> TRUE, matrix_x |-> x, matrix_y |-> y]
    [] self.angle_ = 90 ->
         [written |-> TRUE, matrix_x |-> matrix_width - y - 1, matrix_y |-> x]
    [] self.angle_ = 180 ->
         [written |-> TRUE, matrix_x |-> matrix_width - x - 1,
          matrix_y |-> matrix_height - y - 1]
    [] self.angle_ = 270 ->
         [written |-> TRUE, matrix_x |-> y, matrix_y |-> matrix_height - x - 1]
    [] OTHER ->
         [written |-> FALSE, matrix_x |-> 0, matrix_y |-> 0]

\* ------------------------------------------------------------------------
\* MirrorPixelMapper.  self = [horizontal_].
\* ------------------------------------------------------------------------
Mirror_New == [horizontal_ |-> TRUE]

\* The strlen(param) != 1 test only prints a diagnostic; control falls
\* through to the switch on the first character.
Mirror_SetParameters(self, chain, parallel, param) ==
  IF Len(param) = 0
  THEN [ok |-> TRUE, self |-> [self EXCEPT !.horizontal_ = TRUE]]
  ELSE CASE param[1] \in {"V", "v"} ->
              [ok |-> TRUE, self |-> [self EXCEPT !.horizontal_ = FALSE]]
         [] param[1] \in {"H", "h"} ->
              [ok |-> TRUE, self |-> [self EXCEPT !.horizontal_ = TRUE]]
         [] OTHER -> [ok |-> FALSE, self |-> self]

Mirror_GetSizeMapping(self, matrix_width, matrix_height) ==
  [ok |-> TRUE, visible_width |-> matrix_width,
   visible_height |-> matrix_height]

Mirror_MapVisibleToMatrix(self, matrix_width, matrix_height, x, y) ==
  IF self.horizontal_
  THEN [written |-> TRUE, matrix_x |-> matrix_width - 1 - x, matrix_y |-> y]
  ELSE [written |-> TRUE, matrix_x |-> x, matrix_y |-> matrix_height - 1 - y]

\* ------------------------------------------------------------------------
\* UArrangementMapper.  self = [parallel_].
\* ------------------------------------------------------------------------
UFoldWidth == 64
UVisibleUnit == 32

U_New == [parallel_ |-> 1]

U_SetParameters(self, chain, parallel, param) ==
  IF chain < 2 THEN [ok |-> FALSE, self |-> self]
  ELSE IF CRem(chain, 2) # 0 THEN [ok |-> FALSE, self |-> self]
  ELSE [ok |-> TRUE, self |-> [self EXCEPT !.parallel_ = parallel]]

\* Both outputs are written before the divisibility test.
U_GetSizeMapping(self, matrix_width, matrix_height) ==
  [ok |-> CRem(matrix_height, self.parallel_) = 0,
   visible_width |-> CDiv(matrix_width, UFoldWidth) * UVisibleUnit,
   visible_height |-> 2 * matrix_height]

\* Faulty variant: the outbound row is not shifted right by half the matrix width.
U_MapVisibleToMatrix_NoShift(self, matrix_width, matrix_height, x, y) ==
  LET panel_height == CDiv(matrix_height, self.parallel_)
      visible_width == CDiv(matrix_width, UFoldWidth) * UVisibleUnit
      slab_height == 2 * panel_height
      base_y == CDiv(y, slab_height) * panel_height
      y1 == CRem(y, slab_height)
  IN IF y1 < panel_height
     THEN [written |-> TRUE, matrix_x |-> x, matrix_y |-> base_y + y1]
     ELSE [written |-> TRUE, matrix_x |-> visible_width - x - 1,
           matrix_y |-> base_y + (slab_height - y1 - 1)]

U_MapVisibleToMatrix(self, matrix_width, matrix_height, x, y) ==
  LET panel_height == CDiv(matrix_height, self.parallel_)
      visible_width == CDiv(matrix_width, UFoldWidth) * UVisibleUnit
      slab_height == 2 * panel_height
      base_y == CDiv(y, slab_height) * panel_height
      y1 == CRem(y, slab_height)
  IN IF y1 < panel_height
     THEN [written |-> TRUE, matrix_x |-> x + CDiv(matrix_width, 2),
           matrix_y |-> base_y + y1]
     ELSE [written |-> TRUE, matrix_x |-> visible_width - x - 1,
           matrix_y |-> base_y + (slab_height - y1 - 1)]

\* ------------------------------------------------------------------------
\* VerticalMapper.  self = [z_, chain_, parallel_].
\* ------------------------------------------------------------------------

\* The constructor initialises no field.  No field is read before
\* SetParameters has written all three (FindPixelMapper is the only way to
\* reach the instance), so the indeterminate start values are represented
\* by two different fillings.
V_New ==
  { [z_ |-> FALSE, chain_ |-> 0, parallel_ |-> 0],
    [z_ |-> TRUE, chain_ |-> -1, parallel_ |-> 7] }

V_SetParameters(self, chain, parallel, param) ==
  [ok |-> TRUE,
   self |-> [z_ |-> strcasecmpZ(param), chain_ |-> chain,
             parallel_ |-> parallel]]

V_GetSizeMapping(self, matrix_width, matrix_height) ==
  [ok |-> TRUE,
   visible_width |-> CDiv(matrix_width * self.parallel_, self.chain_),
   visible_height |-> CDiv(matrix_height * self.chain_, self.parallel_)]

\* Faulty variant: every odd panel row is flipped, whatever the number of rows.
V_NeedsFlipping_OddRows(z, is_height_even_panels, panel_row) ==
  z /\ CRem(panel_row, 2) = 1

\* needs_flipping of VerticalMapper::MapVisibleToMatrix.
V_NeedsFlipping(z, is_height_even_panels, panel_row) ==
  z /\ (is_height_even_panels - CRem(panel_row, 2)) = 0

V_MapVisibleToMatrix(self, matrix_width, matrix_height, x, y) ==
  LET panel_width == CDiv(matrix_width, self.chain_)
      panel_height == CDiv(matrix_height, self.parallel_)
      \* bool from int: any non-zero remainder is true (1).
      is_height_even_panels ==
        IF CRem(CDiv(matrix_width, panel_width), 2) # 0 THEN 1 ELSE 0
      x_panel_start == CDiv(y, panel_height) * panel_width
      y_panel_start == CDiv(x, panel_width) * panel_height
      x_within_panel == CRem(x, panel_width)
      y_within_panel == CRem(y, panel_height)
      needs_flipping ==
        V_NeedsFlipping(self.z_, is_height_even_panels, CDiv(y, panel_height))
  IN [written |-> TRUE,
      matrix_x |-> x_panel_start + (IF needs_flipping
                                    THEN panel_width - 1 - x_within_panel
                                    ELSE x_within_panel),
      matrix_y |-> y_panel_start + (IF needs_flipping
                                    THEN panel_height - 1 - y_within_panel
                                    ELSE y_within_panel)]

\* ------------------------------------------------------------------------
\* WindmillPixelMapper.  self = [z_, swap_lr_, chain_, parallel_].
\* ------------------------------------------------------------------------
Windmill_New ==
  [z_ |-> FALSE, swap_lr_ |-> FALSE, chain_ |-> 1, parallel_ |-> 1]

WindmillParallel == 2

\* The loop over the characters of param, from index i on, with the flags
\* as set so far.  An unknown character returns false at once and keeps the
\* flags written up to there.
RECURSIVE Windmill_ScanParam(_, _, _)
Windmill_ScanParam(self, param, i) ==
  IF i > Len(param) THEN [ok |-> TRUE, self |-> self]
  ELSE LET c == param[i]
       IN IF c \in {":", ",", ";", " "}
          THEN Windmill_ScanParam(self, param, i + 1)
          ELSE IF c \in {"Z", "z"}
          THEN Windmill_ScanParam([self EXCEPT !.z_ = TRUE], param, i + 1)
          ELSE IF c \in {"S", "s"}
          THEN Windmill_ScanParam([self EXCEPT !.swap_lr_ = TRUE], param, i + 1)
          ELSE [ok |-> FALSE, self |-> self]

\* chain_ and parallel_ are stored first, then parallel_ is tested, then
\* the flags are cleared and the parameter is scanned.
Windmill_SetParameters(self, chain, parallel, param) ==
  LET s1 == [self EXCEPT !.chain_ = chain, !.parallel_ = parallel]
  IN IF s1.parallel_ # WindmillParallel THEN [ok |-> FALSE, self |-> s1]
     ELSE Windmill_ScanParam([s1 EXCEPT !.z_ = FALSE, !.swap_lr_ = FALSE],
                             param, 1)

Windmill_GetSizeMapping(self, matrix_width, matrix_height) ==
  LET panel_width == CDiv(matrix_width, self.chain_)
      panel_height == CDiv(matrix_height, self.parallel_)
  IN [ok |-> TRUE,
      visible_width |-> panel_height * self.chain_ * self.parallel_,
      visible_height |-> panel_width]

\* Faulty variant: the left half does not get its vertical flip.
Windmill_PanelOffset_NoLeftFlip(self, panel_width, panel_height, rx, ry, is_left_half, cpos) ==
  LET ux0 == ry
      uy0 == panel_height - 1 - rx
      flip == self.z_ /\ CRem(cpos, 2) = 1
  IN [ux |-> IF flip THEN panel_width - 1 - ux0 ELSE ux0,
      uy |-> IF flip THEN panel_height - 1 - uy0 ELSE uy0]

\* Within-panel physical offset (ux, uy) before the final composition:
\* the 90 degree rotation, the vertical flip of the left half, then the
\* serpentine flip.
Windmill_PanelOffset(self, panel_width, panel_height, rx, ry, is_left_half, cpos) ==
  LET ux0 == ry
      uy0 == panel_height - 1 - rx
      uy1 == IF is_left_half # 0 THEN panel_height - 1 - uy0 ELSE uy0
      flip == self.z_ /\ CRem(cpos, 2) = 1
  IN [ux |-> IF flip THEN panel_width - 1 - ux0 ELSE ux0,
      uy |-> IF flip THEN panel_height - 1 - uy1 ELSE uy1]

Windmill_MapVisibleToMatrix(self, matrix_width, matrix_height, x, y) ==
  LET panel_width == CDiv(matrix_width, self.chain_)
      panel_height == CDiv(matrix_height, self.parallel_)
      panel_index_along_width == CDiv(x, panel_height)
      rx == CRem(x, panel_height)
      ry == y
      half == self.chain_
      is_left_half == IF panel_index_along_width < half THEN 1 ELSE 0
      idx_in_half == IF is_left_half # 0
                     THEN half - 1 - panel_index_along_width
                     ELSE panel_index_along_width - half
      p_left == IF self.swap_lr_ THEN 1 ELSE 0
      p_right == IF self.swap_lr_ THEN 0 ELSE 1
      p == IF is_left_half # 0 THEN p_left ELSE p_right
      cpos == IF is_left_half # 0 THEN panel_index_along_width
              ELSE self.chain_ - 1 - idx_in_half
      u == Windmill_PanelOffset(self, panel_width, panel_height, rx, ry,
                                is_left_half, cpos)
  IN IF is_left_half # 0
     THEN [written |-> TRUE,
           matrix_x |-> (cpos + 1) * panel_width - 1 - u.ux,
           matrix_y |-> (p + 1) * panel_height - 1 - u.uy]
     ELSE [written |-> TRUE,
           matrix_x |-> cpos * panel_width + u.ux,
           matrix_y |-> p * panel_height + u.uy]

\* ------------------------------------------------------------------------
\* Mapper instances and their names.
\* ------------------------------------------------------------------------
NULL == "NULL"

RotateInst == "RotatePixelMapper"
UInst == "UArrangementMapper"
VInst == "VerticalMapper"
WindmillInst == "WindmillPixelMapper"
MirrorInst == "MirrorPixelMapper"

\* The instances CreateMapperMap allocates.
Builtins == {RotateInst, UInst, VInst, WindmillInst, MirrorInst}

\* Mappers of the library's user, handed to RegisterPixelMapper.  Their
\* SetParameters is code outside this file: it may accept or reject.
ExtRotate == "ExtRotate"
ExtSpiral == "ExtSpiral"
ExtSPIRAL == "ExtSPIRAL"
Externals == {ExtRotate, ExtSpiral, ExtSPIRAL}

GetName(mapper) ==
  CASE mapper = RotateInst -> <<"R", "o", "t", "a", "t", "e">>
    [] mapper = UInst -> <<"U", "-", "m", "a", "p", "p", "e", "r">>
    [] mapper = VInst -> <<"V", "-", "m", "a", "p", "p", "e", "r">>
    [] mapper = WindmillInst -> <<"W", "i", "n", "d", "m", "i", "l", "l">>
    [] mapper = MirrorInst -> <<"M", "i", "r", "r", "o", "r">>
    [] mapper = ExtRotate -> <<"R", "O", "T", "A", "T", "E">>
    [] mapper = ExtSpiral -> <<"S", "p", "i", "r", "a", "l">>
    [] mapper = ExtSPIRAL -> <<"S", "P", "I", "R", "A", "L">>

\* ------------------------------------------------------------------------
\* State.
\* ------------------------------------------------------------------------
VARIABLES
  registry,   \* MapperByName: lower-cased name -> instance
  rotate,     \* fields of the RotatePixelMapper instance
  mirror,     \* fields of the MirrorPixelMapper instance
  umapper,    \* fields of the UArrangementMapper instance
  vmapper,    \* fields of the VerticalMapper instance
  windmill,   \* fields of the WindmillPixelMapper instance
  ret,        \* what the last FindPixelMapper returned (instance or NULL)
  available,  \* what the last GetAvailablePixelMappers returned
  call,       \* history: the last public call and its arguments
  regLog,     \* history: every registration so far, in order
  held,       \* a caller's copy of a pointer FindPixelMapper returned
  client      \* a caller using the configured mapper on one pixel

mappers == <<rotate, mirror, umapper, vmapper, windmill>>
libVars == <<registry, rotate, mirror, umapper, vmapper, windmill, ret,
             available, call, regLog>>
vars == <<registry, rotate, mirror, umapper, vmapper, windmill, ret,
          available, call, regLog, held, client>>

\* ------------------------------------------------------------------------
\* The registry.
\* ------------------------------------------------------------------------
EmptyRegistry == [k \in {} |-> NULL]

\* Faulty variant: std::map::insert semantics, an existing entry is kept.
RegisterPixelMapperInternal_KeepFirst(reg, mapper) ==
  LET lower_name == ToLowerName(GetName(mapper))
  IN [k \in DOMAIN reg \cup {lower_name} |->
        IF k \in DOMAIN reg THEN reg[k] ELSE mapper]

\* (*registry)[lower_name] = mapper
RegisterPixelMapperInternal(reg, mapper) ==
  LET lower_name == ToLowerName(GetName(mapper))
  IN [k \in DOMAIN reg \cup {lower_name} |->
        IF k = lower_name THEN mapper ELSE reg[k]]

\* The order in which CreateMapperMap registers the built-in mappers.
CreateOrder == <<RotateInst, UInst, VInst, WindmillInst, MirrorInst>>

RECURSIVE RegisterAll(_, _)
RegisterAll(reg, order) ==
  IF Len(order) = 0 THEN reg
  ELSE RegisterAll(RegisterPixelMapperInternal(reg, Head(order)), Tail(order))

CreateMapperMap == RegisterAll(EmptyRegistry, CreateOrder)

\* Iteration order of std::map<std::string, ...>: ascending keys.
RECURSIVE SortedKeys(_)
SortedKeys(keys) ==
  IF keys = {} THEN <<>>
  ELSE LET first == CHOOSE k \in keys : \A j \in keys \ {k} : StrLess(k, j)
       IN <<first>> \o SortedKeys(keys \ {first})

\* ------------------------------------------------------------------------
\* Virtual dispatch on the built-in instances.
\* ------------------------------------------------------------------------
SetParametersOf(mapper, chain, parallel, param) ==
  CASE mapper = RotateInst -> Rotate_SetParameters(rotate, chain, parallel, param)
    [] mapper = MirrorInst -> Mirror_SetParameters(mirror, chain, parallel, param)
    [] mapper = UInst -> U_SetParameters(umapper, chain, parallel, param)
    [] mapper = VInst -> V_SetParameters(vmapper, chain, parallel, param)
    [] mapper = WindmillInst ->
         Windmill_SetParameters(windmill, chain, parallel, param)

GetSizeMappingOf(mapper, matrix_width, matrix_height) ==
  CASE mapper = RotateInst ->
         Rotate_GetSizeMapping(rotate, matrix_width, matrix_height)
    [] mapper = MirrorInst ->
         Mirror_GetSizeMapping(mirror, matrix_width, matrix_height)
    [] mapper = UInst -> U_GetSizeMapping(umapper, matrix_width, matrix_height)
    [] mapper = VInst -> V_GetSizeMapping(vmapper, matrix_width, matrix_height)
    [] mapper = WindmillInst ->
         Windmill_GetSizeMapping(windmill, matrix_width, matrix_height)

MapVisibleToMatrixOf(mapper, matrix_width, matrix_height, x, y) ==
  CASE mapper = RotateInst ->
         Rotate_MapVisibleToMatrix(rotate, matrix_width, matrix_height, x, y)
    [] mapper = MirrorInst ->
         Mirror_MapVisibleToMatrix(mirror, matrix_width, matrix_height, x, y)
    [] mapper = UInst ->
         U_MapVisibleToMatrix(umapper, matrix_width, matrix_height, x, y)
    [] mapper = VInst ->
         V_MapVisibleToMatrix(vmapper, matrix_width, matrix_height, x, y)
    [] mapper = WindmillInst ->
         Windmill_MapVisibleToMatrix(windmill, matrix_width, matrix_height, x, y)

\* ------------------------------------------------------------------------
\* Initial state: the registry as CreateMapperMap leaves it, every built-in
\* instance as its constructor leaves it.
\* ------------------------------------------------------------------------
NoCall ==
  [op |-> "none", name |-> <<>>, chain |-> 0, parallel |-> 0,
   parameter |-> <<>>, mapper |-> NULL, accepted |-> FALSE]

\* The caller's output cells start at a value no mapper produces in range.
ClientStart ==
  [pc |-> "start", matrix_width |-> 0, matrix_height |-> 0,
   visible_width |-> 0, visible_height |-> 0, size_ok |-> FALSE,
   x |-> 0, y |-> 0, matrix_x |-> -1, matrix_y |-> -1]

Init ==
  /\ registry = CreateMapperMap
  /\ rotate = Rotate_New
  /\ mirror = Mirror_New
  /\ umapper = U_New
  /\ vmapper \in V_New
  /\ windmill = Windmill_New
  /\ ret = NULL
  /\ available = <<>>
  /\ call = NoCall
  /\ regLog = CreateOrder
  /\ held = NULL
  /\ client = ClientStart

\* ------------------------------------------------------------------------
\* Public API.
\* ------------------------------------------------------------------------

\* RegisterPixelMapper(mapper).  The number of calls is bounded.
RegisterPixelMapper(mapper) ==
  /\ Len(regLog) < Len(CreateOrder) + MaxRegister
  /\ registry' = RegisterPixelMapperInternal(registry, mapper)
  /\ regLog' = Append(regLog, mapper)
  /\ call' = [NoCall EXCEPT !.op = "Register", !.name = GetName(mapper),
                            !.mapper = mapper]
  /\ UNCHANGED <<rotate, mirror, umapper, vmapper, windmill, ret, available>>

\* GetAvailablePixelMappers(): the display names in key order.
GetAvailablePixelMappers ==
  /\ available' = LET keys == SortedKeys(DOMAIN registry)
                  IN [i \in 1..Len(keys) |-> GetName(registry[keys[i]])]
  /\ call' = [NoCall EXCEPT !.op = "GetAvailable"]
  /\ UNCHANGED <<registry, rotate, mirror, umapper, vmapper, windmill, ret,
                 regLog>>

\* Faulty variant: the lookup uses operator[], which adds a null entry on a miss.
NoSuchMapper_Subscript(name, chain, parallel, parameter) ==
  /\ ret' = NULL
  /\ registry' = [k \in DOMAIN registry \cup {ToLowerName(name)} |->
                    IF k \in DOMAIN registry THEN registry[k] ELSE NULL]
  /\ call' = [op |-> "Find", name |-> name, chain |-> chain,
              parallel |-> parallel, parameter |-> parameter,
              mapper |-> NULL, accepted |-> FALSE]
  /\ UNCHANGED <<rotate, mirror, umapper, vmapper, windmill, available, regLog>>

\* FindPixelMapper, lookup miss: "no such mapper", return NULL.
NoSuchMapper(name, chain, parallel, parameter) ==
  /\ ret' = NULL
  /\ call' = [op |-> "Find", name |-> name, chain |-> chain,
              parallel |-> parallel, parameter |-> parameter,
              mapper |-> NULL, accepted |-> FALSE]
  /\ UNCHANGED <<registry, rotate, mirror, umapper, vmapper, windmill,
                 available, regLog>>

\* FindPixelMapper, lookup hit on a built-in instance: SetParameters runs on
\* the registered instance itself, and the instance is returned if it
\* accepted.
ConfigureBuiltin(mapper, name, chain, parallel, parameter) ==
  LET r == SetParametersOf(mapper, chain, parallel, parameter)
  IN /\ rotate' = IF mapper = RotateInst THEN r.self ELSE rotate
     /\ mirror' = IF mapper = MirrorInst THEN r.self ELSE mirror
     /\ umapper' = IF mapper = UInst THEN r.self ELSE umapper
     /\ vmapper' = IF mapper = VInst THEN r.self ELSE vmapper
     /\ windmill' = IF mapper = WindmillInst THEN r.self ELSE windmill
     /\ ret' = IF r.ok THEN mapper ELSE NULL
     /\ call' = [op |-> "Find", name |-> name, chain |-> chain,
                 parallel |-> parallel, parameter |-> parameter,
                 mapper |-> mapper, accepted |-> r.ok]
     /\ UNCHANGED <<registry, available, regLog>>

\* FindPixelMapper, lookup hit on a user's mapper: its SetParameters decides.
ConfigureExternal(mapper, name, chain, parallel, parameter) ==
  \E ok \in BOOLEAN :
     /\ ret' = IF ok THEN mapper ELSE NULL
     /\ call' = [op |-> "Find", name |-> name, chain |-> chain,
                 parallel |-> parallel, parameter |-> parameter,
                 mapper |-> mapper, accepted |-> ok]
     /\ UNCHANGED <<registry, rotate, mirror, umapper, vmapper, windmill,
                    available, regLog>>

FindPixelMapper(name, chain, parallel, parameter) ==
  LET lower_name == ToLowerName(name)
  IN IF lower_name \notin DOMAIN registry
     THEN NoSuchMapper(name, chain, parallel, parameter)
     ELSE LET mapper == registry[lower_name]
          IN IF mapper = NULL
             THEN NoSuchMapper(name, chain, parallel, parameter)
             ELSE IF mapper \in Builtins
             THEN ConfigureBuiltin(mapper, name, chain, parallel, parameter)
             ELSE ConfigureExternal(mapper, name, chain, parallel, parameter)

\* ------------------------------------------------------------------------
\* A caller of the library: it keeps a returned pointer, asks the mapper
\* for the visible size of a matrix of chain x parallel panels, and maps one
\* visible pixel.
\* ------------------------------------------------------------------------

\* The caller stores the built-in mapper FindPixelMapper just returned.
KeepPointer ==
  /\ held = NULL
  /\ call.op = "Find"
  /\ ret \in Builtins
  /\ held' = ret
  /\ UNCHANGED <<libVars, client>>

\* ret->GetSizeMapping(matrix_width, matrix_height, &visible_width,
\* &visible_height) on a matrix of call.chain x call.parallel panels.
GetSizeMapping(panel_width, panel_height) ==
  /\ client.pc = "start"
  /\ call.op = "Find"
  /\ ret \in Builtins
  /\ LET mw == call.chain * panel_width
         mh == call.parallel * panel_height
         r == GetSizeMappingOf(ret, mw, mh)
     IN client' = [client EXCEPT !.pc = "sized",
                                 !.matrix_width = mw,
                                 !.matrix_height = mh,
                                 !.visible_width = r.visible_width,
                                 !.visible_height = r.visible_height,
                                 !.size_ok = r.ok]
  /\ UNCHANGED <<libVars, held>>

\* ret->MapVisibleToMatrix(matrix_width, matrix_height, x, y, &matrix_x,
\* &matrix_y) for a pixel of the visible canvas.
MapVisibleToMatrix(x, y) ==
  /\ client.pc = "sized"
  /\ client.size_ok
  /\ x \in 0..(client.visible_width - 1)
  /\ y \in 0..(client.visible_height - 1)
  /\ LET r == MapVisibleToMatrixOf(ret, client.matrix_width,
                                   client.matrix_height, x, y)
     IN client' = [client EXCEPT !.pc = "mapped",
                                 !.x = x,
                                 !.y = y,
                                 !.matrix_x = IF r.written THEN r.matrix_x ELSE @,
                                 !.matrix_y = IF r.written THEN r.matrix_y ELSE @]
  /\ UNCHANGED <<libVars, held>>

\* ------------------------------------------------------------------------
\* Inputs.
\* ------------------------------------------------------------------------
Str_rotate == <<"r", "o", "t", "a", "t", "e">>
Str_RoTaTe == <<"R", "o", "T", "a", "T", "e">>
Str_MIRROR == <<"M", "I", "R", "R", "O", "R">>
Str_umapper == <<"u", "-", "m", "a", "p", "p", "e", "r">>
Str_VMapper == <<"V", "-", "M", "a", "p", "p", "e", "r">>
Str_windmill == <<"w", "i", "n", "d", "m", "i", "l", "l">>
Str_sPiral == <<"s", "P", "i", "r", "a", "l">>
Str_rotat == <<"r", "o", "t", "a", "t">>
Str_nosuch == <<"n", "o", "s", "u", "c", "h">>

\* Panel geometry of the mapping runs.  A U-mapper shows pixels only from a
\* matrix width of UFoldWidth on, so one panel width is UVisibleUnit.
PanelWidths == (1..MaxPanelW) \cup {UVisibleUnit}
PanelHeights == 1..MaxPanelH
Chains == 1..MaxChain
Parallels == 1..MaxParallel

\* The configurations of the mapping runs: every built-in mapper under one
\* spelling of its name, with the parameters that select its variants.
MapConfigs ==
  { <<Str_RoTaTe, <<>> >>, <<Str_RoTaTe, <<"9", "0">> >>,
    <<Str_RoTaTe, <<"1", "8", "0">> >>, <<Str_RoTaTe, <<"-", "9", "0">> >>,
    <<Str_RoTaTe, <<"-", "4", "5", "0">> >>, <<Str_RoTaTe, <<"4", "5">> >>,
    <<Str_MIRROR, <<>> >>, <<Str_MIRROR, <<"V">> >>, <<Str_MIRROR, <<"X">> >>,
    <<Str_umapper, <<>> >>,
    <<Str_VMapper, <<>> >>, <<Str_VMapper, <<"Z">> >>,
    <<Str_VMapper, <<"z">> >>, <<Str_VMapper, <<"S">> >>,
    <<Str_windmill, <<>> >>, <<Str_windmill, <<"Z">> >>,
    <<Str_windmill, <<"S">> >>, <<Str_windmill, <<"z", ":", "S">> >> }

\* ------------------------------------------------------------------------
\* SpecMap: one mapper is looked up and configured, then sized and applied
\* to one pixel of its visible canvas.
\* ------------------------------------------------------------------------
ConfigureOnce ==
  \E cfg \in MapConfigs, chain \in Chains, parallel \in Parallels :
     /\ call.op = "none"
     /\ FindPixelMapper(cfg[1], chain, parallel, cfg[2])
     /\ UNCHANGED <<held, client>>

SizeMatrix ==
  \E panel_width \in PanelWidths, panel_height \in PanelHeights :
     GetSizeMapping(panel_width, panel_height)

MapPixel ==
  \E x \in 0..(client.visible_width - 1), y \in 0..(client.visible_height - 1) :
     MapVisibleToMatrix(x, y)

NextMap == ConfigureOnce \/ SizeMatrix \/ MapPixel

SpecMap == Init /\ [][NextMap]_vars

\* ------------------------------------------------------------------------
\* Properties of the mappings (checked under SpecMap).
\* ------------------------------------------------------------------------
Mapped == client.pc = "mapped"

\* Panel size of the matrix the caller described.
PanelW == CDiv(client.matrix_width, call.chain)
PanelH == CDiv(client.matrix_height, call.parallel)

RightAngles == {0, 90, 180, 270}

\* The matrix coordinates of all pixels of the visible canvas.
VisibleImage ==
  { LET r == MapVisibleToMatrixOf(ret, client.matrix_width,
                                  client.matrix_height, p[1], p[2])
    IN <<r.matrix_x, r.matrix_y>> :
    p \in (0..(client.visible_width - 1)) \X (0..(client.visible_height - 1)) }

\* C1: for every built-in mapper as an accepted SetParameters left it
\* (Rotate at 0, 90, 180 or 270 degrees) and every matrix of chain x
\* parallel panels for which GetSizeMapping returned true, every pixel of
\* the visible canvas maps into the matrix and no two of them map to the
\* same matrix coordinate (the image has as many points as the canvas).
C1_InRangeAndInjective ==
  (ret = RotateInst => rotate.angle_ \in RightAngles) =>
     /\ (client.pc = "sized" /\ client.size_ok) =>
           /\ VisibleImage \subseteq
                (0..(client.matrix_width - 1)) \X (0..(client.matrix_height - 1))
           /\ Cardinality(VisibleImage) =
                client.visible_width * client.visible_height
     /\ Mapped =>
           /\ client.matrix_x \in 0..(client.matrix_width - 1)
           /\ client.matrix_y \in 0..(client.matrix_height - 1)

\* The last pixel of the return row of a folded two-chain U-mapper has been
\* mapped.
C1_Witness ==
  /\ Mapped
  /\ ret = UInst
  /\ umapper.parallel_ = 2
  /\ client.visible_width = UVisibleUnit
  /\ client.x = UVisibleUnit - 1
  /\ client.y = client.visible_height - 1
  /\ client.matrix_x = 0

\* C7: mapping a visible pixel with Rotate(t), t in {0, 90, 180, 270}, and
\* mapping the result with Rotate((360 - t) mod 360) on a matrix of the
\* first mapper's visible size gives the pixel back; Rotate(0) is the
\* identity.
C7_RotateRoundTrip ==
  (Mapped /\ ret = RotateInst /\ rotate.angle_ \in RightAngles) =>
     LET back == [angle_ |-> (360 - rotate.angle_) % 360]
         size2 == Rotate_GetSizeMapping(back, client.visible_width,
                                        client.visible_height)
         r2 == Rotate_MapVisibleToMatrix(back, client.visible_width,
                                         client.visible_height,
                                         client.matrix_x, client.matrix_y)
     IN /\ client.matrix_x \in 0..(size2.visible_width - 1)
        /\ client.matrix_y \in 0..(size2.visible_height - 1)
        /\ r2.written
        /\ r2.matrix_x = client.x
        /\ r2.matrix_y = client.y
        /\ (rotate.angle_ = 0 =>
              (client.matrix_x = client.x /\ client.matrix_y = client.y))

\* A pixel off the diagonal of a non-square matrix went through Rotate(90).
C7_Witness ==
  /\ Mapped
  /\ ret = RotateInst
  /\ rotate.angle_ = 90
  /\ client.matrix_width # client.matrix_height
  /\ client.x # client.y
  /\ client.x > 0

\* Within-panel physical offset of the mapped pixel.
OffsetX == CRem(client.matrix_x, PanelW)
OffsetY == CRem(client.matrix_y, PanelH)

WindmillNoZ == Mapped /\ ret = WindmillInst /\ ~windmill.z_
InLeftHalf == CDiv(client.x, PanelH) < call.chain

\* C8 as stated: without Z a right-half pixel has within-panel offset
\* (y, panel_height - 1 - x mod panel_height) and a left-half pixel has
\* (panel_width - 1 - y, x mod panel_height).
C8_AsStated ==
  WindmillNoZ =>
     IF InLeftHalf
     THEN /\ OffsetX = PanelW - 1 - client.y
          /\ OffsetY = CRem(client.x, PanelH)
     ELSE /\ OffsetX = client.y
          /\ OffsetY = PanelH - 1 - CRem(client.x, PanelH)

\* C8 (amended): without Z a right-half pixel has within-panel offset
\* (y, panel_height - 1 - x mod panel_height); a left-half pixel has
\* (panel_width - 1 - y, panel_height - 1 - x mod panel_height): the
\* vertical flip and the 180 degree correction of the left half together
\* reverse only the panel-width axis of the base rotation.
C8_WindmillOffsets ==
  WindmillNoZ =>
     IF InLeftHalf
     THEN /\ OffsetX = PanelW - 1 - client.y
          /\ OffsetY = PanelH - 1 - CRem(client.x, PanelH)
     ELSE /\ OffsetX = client.y
          /\ OffsetY = PanelH - 1 - CRem(client.x, PanelH)

\* A left-half pixel whose two candidate offsets differ has been mapped.
C8_Witness ==
  /\ WindmillNoZ
  /\ InLeftHalf
  /\ PanelH >= 2
  /\ PanelW >= 2
  /\ CRem(client.x, PanelH) # PanelH - 1 - CRem(client.x, PanelH)

\* C9: the V-mapper places the visible panel (column c, row r) at the
\* physical panel (column r, row c); with parameter "Z" or "z" the pixels
\* of row r are reversed on both axes within their panel exactly when
\* r mod 2 = chain mod 2, so the last row r = chain - 1 is never flipped;
\* with any other parameter no row is flipped.
C9_VerticalSerpentine ==
  (Mapped /\ ret = VInst) =>
     LET r == CDiv(client.y, PanelH)
         c == CDiv(client.x, PanelW)
         xw == CRem(client.x, PanelW)
         yw == CRem(client.y, PanelH)
         isZ == call.parameter \in {<<"Z">>, <<"z">>}
         flipped == isZ /\ (r % 2 = call.chain % 2)
     IN /\ r \in 0..(call.chain - 1)
        /\ client.matrix_x = r * PanelW + (IF flipped THEN PanelW - 1 - xw ELSE xw)
        /\ client.matrix_y = c * PanelH + (IF flipped THEN PanelH - 1 - yw ELSE yw)
        /\ (r = call.chain - 1 =>
              (OffsetX = xw /\ OffsetY = yw))

\* With Z and two rows, a pixel of the flipped first row whose flip moves it.
C9_Witness ==
  /\ Mapped
  /\ ret = VInst
  /\ vmapper.z_
  /\ call.chain = 2
  /\ CDiv(client.y, PanelH) = 0
  /\ PanelW >= 2
  /\ OffsetX = PanelW - 1 - CRem(client.x, PanelW)
  /\ OffsetX # CRem(client.x, PanelW)

\* ------------------------------------------------------------------------
\* Spec: the registry.  Mappers of the user are registered, names are
\* enumerated and looked up in several spellings, and a caller keeps a
\* pointer that a lookup returned.
\* ------------------------------------------------------------------------
RegNames == {Str_RoTaTe, Str_sPiral, Str_rotat}
RegParams == { <<>>, <<"9", "0">>, <<"Z">> }
RegGeometries == { <<2, 2>>, <<3, 1>> }

Lookup ==
  \E name \in RegNames, g \in RegGeometries, parameter \in RegParams :
     /\ FindPixelMapper(name, g[1], g[2], parameter)
     /\ UNCHANGED <<held, client>>

Register ==
  \E mapper \in Externals :
     /\ RegisterPixelMapper(mapper)
     /\ UNCHANGED <<held, client>>

Enumerate ==
  /\ GetAvailablePixelMappers
  /\ UNCHANGED <<held, client>>

Next == Lookup \/ Register \/ Enumerate \/ KeepPointer

Spec == Init /\ [][Next]_vars

\* ------------------------------------------------------------------------
\* Properties of the registry (checked under Spec).
\* ------------------------------------------------------------------------
RegisteredNames == {ToLowerName(GetName(regLog[i])) : i \in 1..Len(regLog)}

\* The instance registered last under a name that lower-cases to lower.
MostRecent(lower) ==
  LET idx == {i \in 1..Len(regLog) : ToLowerName(GetName(regLog[i])) = lower}
  IN IF idx = {} THEN NULL
     ELSE regLog[CHOOSE i \in idx : \A j \in idx : j <= i]

\* C5: the registry holds exactly one entry per distinct lower-cased
\* registered name, bound to the instance registered last under it, and
\* FindPixelMapper with a name in any casing configures that instance and,
\* if the instance accepts the parameter, returns it.
C5_LastRegistrationWins ==
  /\ DOMAIN registry = RegisteredNames
  /\ \A k \in DOMAIN registry : registry[k] = MostRecent(k)
  /\ call.op = "Find" =>
       LET m == MostRecent(ToLowerName(call.name))
       IN /\ call.mapper = m
          /\ (m # NULL /\ call.accepted) => ret = m
          /\ ret # NULL => ret = m

\* "sPiral" found the mapper named "SPIRAL", registered after the one named
\* "Spiral".
C5_Witness ==
  /\ call.op = "Find"
  /\ call.name = Str_sPiral
  /\ ret = ExtSPIRAL
  /\ \E i, j \in 1..Len(regLog) :
        i < j /\ regLog[i] = ExtSpiral /\ regLog[j] = ExtSPIRAL

\* C6: a FindPixelMapper whose lower-cased name is no registry key returns
\* NULL and changes neither the registry (names and bound instances) nor a
\* field of any built-in mapper.
C6_MissChangesNothing ==
  [][ (call'.op = "Find" /\ ToLowerName(call'.name) \notin DOMAIN registry)
        => (ret' = NULL /\ registry' = registry /\ mappers' = mappers) ]_vars

\* A lookup of "rotat" missed after a registration and an earlier hit.
C6_Witness ==
  /\ call.op = "Find"
  /\ call.name = Str_rotat
  /\ ToLowerName(call.name) \notin DOMAIN registry
  /\ ret = NULL
  /\ Len(regLog) > Len(CreateOrder)
  /\ rotate.angle_ = 90

\* What a caller can observe of a built-in mapper: the results of
\* GetSizeMapping and MapVisibleToMatrix for some fixed arguments.
ProbeMatrix == [width |-> 64, height |-> 12]
ProbePixels == { <<0, 0>>, <<3, 1>>, <<9, 5>> }

Observation(mapper) ==
  [p \in ProbePixels |->
     << GetSizeMappingOf(mapper, ProbeMatrix.width, ProbeMatrix.height),
        MapVisibleToMatrixOf(mapper, ProbeMatrix.width, ProbeMatrix.height,
                             p[1], p[2]) >>]

\* C2: once FindPixelMapper has returned a configured mapper, the results
\* of its GetSizeMapping and MapVisibleToMatrix for fixed arguments never
\* change, whatever RegisterPixelMapper, GetAvailablePixelMappers and
\* FindPixelMapper calls follow.
C2_ImmutableOnceReturned ==
  [][ held # NULL => Observation(held)' = Observation(held) ]_vars

\* ------------------------------------------------------------------------
\* SpecConfigure: the built-in mappers are looked up again and again with
\* accepted and rejected parameters and geometries.
\* ------------------------------------------------------------------------
ConfigureCalls ==
  { <<Str_rotate, <<>> >>, <<Str_rotate, <<"9", "0">> >>,
    <<Str_rotate, <<"-", "9", "0">> >>, <<Str_rotate, <<"-", "4", "5", "0">> >>,
    <<Str_rotate, <<"4", "5">> >>, <<Str_rotate, <<"9", "0", "x">> >>,
    <<Str_MIRROR, <<>> >>, <<Str_MIRROR, <<"V">> >>, <<Str_MIRROR, <<"h">> >>,
    <<Str_MIRROR, <<"X">> >>, <<Str_MIRROR, <<"H", "V">> >>,
    <<Str_MIRROR, <<"v", "x">> >>,
    <<Str_umapper, <<>> >>,
    <<Str_VMapper, <<"z">> >>,
    <<Str_windmill, <<>> >>, <<Str_windmill, <<"Z">> >>,
    <<Str_windmill, <<"s">> >>, <<Str_windmill, <<"Z", "q">> >>,
    <<Str_nosuch, <<>> >> }
ConfigureGeometries == { <<2, 2>>, <<3, 1>> }

Reconfigure ==
  \E c \in ConfigureCalls, g \in ConfigureGeometries :
     /\ FindPixelMapper(c[1], g[1], g[2], c[2])
     /\ UNCHANGED <<held, client>>

NextConfigure == Reconfigure \/ Enumerate

SpecConfigure == Init /\ [][NextConfigure]_vars

\* ------------------------------------------------------------------------
\* Properties of configuration (checked under SpecConfigure).
\* ------------------------------------------------------------------------

\* C3: for every signed decimal multiple of 90 as parameter, Rotate's
\* SetParameters succeeds and stores the residue of the parameter mod 360,
\* one of 0, 90, 180, 270, so that MapVisibleToMatrix writes its outputs.
IsSignedDecimal(s) ==
  LET first == IF Len(s) > 0 /\ s[1] \in {"-", "+"} THEN 2 ELSE 1
  IN /\ first <= Len(s)
     /\ \A i \in first..Len(s) : IsDigit(s[i])

C3_RotateMod360 ==
  (/\ call.op = "Find"
   /\ call.mapper = RotateInst
   /\ IsSignedDecimal(call.parameter)
   /\ strtol(call.parameter).value % 90 = 0) =>
     /\ call.accepted
     /\ rotate.angle_ = strtol(call.parameter).value % 360
     /\ rotate.angle_ \in RightAngles
     /\ Rotate_MapVisibleToMatrix(rotate, ProbeMatrix.width,
                                  ProbeMatrix.height, 0, 0).written

\* C4: Mirror's SetParameters succeeds exactly when the parameter is empty
\* or is the single character H, h, V or v.
C4_MirrorSingleCharacter ==
  (call.op = "Find" /\ call.mapper = MirrorInst) =>
     (call.accepted <=>
        \/ Len(call.parameter) = 0
        \/ /\ Len(call.parameter) = 1
           /\ call.parameter[1] \in {"H", "h", "V", "v"})

\* C10: when SetParameters of a built-in mapper returns false, every field
\* of every built-in mapper keeps the value it had before the call.
C10_RejectionChangesNothing ==
  [][ (call'.op = "Find" /\ call'.mapper \in Builtins /\ ~call'.accepted)
        => mappers' = mappers ]_vars

=============================================================================
